---- MODULE Spec2Model ----
(***************************************************************************)
(* Model of scripts/agno_bridge.py: the stdin/stdout bridge in front of    *)
(* the agno agent library.  One step of the model is one run of main():    *)
(* read standard input, decode it, dispatch it with handle_request, write  *)
(* the response.  The module-level agent handle and AGNO_AVAILABLE live    *)
(* as long as the process, so a behaviour is a sequence of requests        *)
(* served by one process.                                                  *)
(*                                                                         *)
(* Python values are tagged records [t |-> <type>, v |-> <payload>].  A    *)
(* str is a sequence of text chunks: message contents are written one      *)
(* character per chunk (so slicing counts characters), fixed texts are one *)
(* chunk.  The agno library is an opaque collaborator: what each of its    *)
(* entry points does (return, raise) is drawn per run as the record lib.   *)
(***************************************************************************)
EXTENDS Integers, Sequences, FiniteSets, TLC

VARIABLES AGNO_AVAILABLE, agent, stdin, dispatched, calls, stdout, written,
          runs, prev_agent, last_init, next_id

vars == <<AGNO_AVAILABLE, agent, stdin, dispatched, calls, stdout, written,
          runs, prev_agent, last_init, next_id>>

\* ------------------------------------------------------------- bounds
\* runs of main() in one process
MaxRequests == 2
\* length of a messages list
MaxMsgs == 2

\* ------------------------------------------------------ Python values
None == [t |-> "NoneType"]
Str(s) == [t |-> "str", v |-> s]
Number(n) == [t |-> "int", v |-> n]
Bool(b) == [t |-> "bool", v |-> b]
List(s) == [t |-> "list", v |-> s]
Float(text) == [t |-> "float", v |-> text]
Dict(f) == [t |-> "dict", v |-> f]
EmptyDict == Dict([k \in {} |-> None])
\* an object of the library that json cannot encode
Opaque == [t |-> "object"]

NoExc == [type |-> "none"]
Exc(type, msg) == [type |-> type, msg |-> msg]

\* text of the type name in Python's messages
TypeName(x) == x.t

\* str(x) as an f-string embeds it
RECURSIVE Format(_)
Format(x) ==
    CASE x.t = "str" -> x.v
      [] x.t = "NoneType" -> <<"None">>
      [] x.t = "bool" -> IF x.v THEN <<"True">> ELSE <<"False">>
      [] x.t = "int" -> <<ToString(x.v)>>
      [] x.t = "float" -> <<x.v>>
      [] x.t = "list" -> <<"[">> \o (IF x.v = <<>> THEN <<>> ELSE <<"...">>) \o <<"]">>
      [] x.t = "dict" -> <<"{">> \o (IF DOMAIN x.v = {} THEN <<>> ELSE <<"...">>) \o <<"}">>
      [] OTHER -> <<"<object>">>

\* json.dumps can encode x: everything json.loads produced, nothing of the library
RECURSIVE Serializable(_)
Serializable(x) ==
    CASE x.t \in {"str", "NoneType", "bool", "int", "float"} -> TRUE
      [] x.t = "list" -> \A i \in 1..Len(x.v) : Serializable(x.v[i])
      [] x.t = "dict" -> \A k \in DOMAIN x.v : Serializable(x.v[k])
      [] OTHER -> FALSE

\* the keys of the requests, in the order the texts below list them
KeyOrder == <<"action", "data", "agentName", "description", "modelName", "messages",
              "options", "toolName", "params", "role", "content", "name", "q",
              "temperature">>

\* the text json.dumps(x) writes for an encodable x
RECURSIVE Dumps(_), DumpsItems(_, _), DumpsMembers(_, _, _)
DumpsItems(s, i) ==
    IF i > Len(s) THEN <<>>
    ELSE (IF i > 1 THEN <<", ">> ELSE <<>>) \o Dumps(s[i]) \o DumpsItems(s, i + 1)
DumpsMembers(f, i, first) ==
    IF i > Len(KeyOrder) THEN <<>>
    ELSE IF KeyOrder[i] \in DOMAIN f
         THEN (IF first THEN <<>> ELSE <<", ">>)
              \o <<"\"", KeyOrder[i], "\": ">> \o Dumps(f[KeyOrder[i]])
              \o DumpsMembers(f, i + 1, FALSE)
         ELSE DumpsMembers(f, i + 1, first)
Dumps(x) ==
    CASE x.t = "str" -> <<"\"">> \o x.v \o <<"\"">>
      [] x.t = "NoneType" -> <<"null">>
      [] x.t = "bool" -> IF x.v THEN <<"true">> ELSE <<"false">>
      [] x.t = "int" -> <<ToString(x.v)>>
      [] x.t = "float" -> <<x.v>>
      [] x.t = "list" -> <<"[">> \o DumpsItems(x.v, 1) \o <<"]">>
      [] x.t = "dict" -> <<"{">> \o DumpsMembers(x.v, 1, TRUE) \o <<"}">>
      [] OTHER -> <<>>

\* d.get(k, default) on a dict
Get(d, k, default) == IF k \in DOMAIN d.v THEN d.v[k] ELSE default
\* x.get raises AttributeError unless x is a dict
NoGet(x) == Exc("AttributeError", <<"'", TypeName(x), "' object has no attribute 'get'">>)

\* m[k] for a str key k: a dict looks the key up, nothing else takes a str index
Subscript(m, k) ==
    IF m.t = "dict"
    THEN IF k \in DOMAIN m.v
         THEN [exc |-> NoExc, val |-> m.v[k]]
         ELSE [exc |-> Exc("KeyError", <<"'", k, "'">>)]
    ELSE IF m.t \in {"str", "list"}
         THEN [exc |-> Exc("TypeError", <<m.t, " indices must be integers">>)]
         ELSE [exc |-> Exc("TypeError", <<"'", TypeName(m), "' object is not subscriptable">>)]

\* the keys of a dict in order, as the str values iterating it yields
RECURSIVE KeysFrom(_, _)
KeysFrom(f, i) ==
    IF i > Len(KeyOrder) THEN <<>>
    ELSE (IF KeyOrder[i] \in DOMAIN f THEN <<Str(<<KeyOrder[i]>>)>> ELSE <<>>)
         \o KeysFrom(f, i + 1)

\* `for m in x`: the items, or TypeError when x is not iterable
Iterate(x) ==
    CASE x.t = "list" -> [exc |-> NoExc, val |-> x.v]
      [] x.t = "str" -> [exc |-> NoExc, val |-> [i \in 1..Len(x.v) |-> Str(<<x.v[i]>>)]]
      [] x.t = "dict" -> [exc |-> NoExc, val |-> KeysFrom(x.v, 1)]
      [] OTHER -> [exc |-> Exc("TypeError", <<"'", TypeName(x), "' object is not iterable">>)]

\* ------------------------------------------------- outcomes of a call
\* what a handler leaves behind: it returned a response or raised, the agent
\* handle after it, and the calls it made into the library, in order
NoResponse == [none |-> TRUE]
Return(response, ag, cs) == [exc |-> NoExc, response |-> response, agent |-> ag, calls |-> cs]
Raise(exc, ag, cs) == [exc |-> exc, response |-> NoResponse, agent |-> ag, calls |-> cs]

Success(data) == [success |-> Bool(TRUE), data |-> data]
Failure(error) == [success |-> Bool(FALSE), error |-> Str(error)]

\* ------------------------------------------------------ initialize_agent
\* the object agno.Agent(name=, description=, model=) constructs: a fresh
\* instance (id) that reports the fields it was given, or its own rendering of
\* them when the library normalises, and carries the library's tool registry
Agent(id, name, description, model, lib) ==
    [t |-> "Agent", id |-> id,
     name |-> IF lib.norm THEN Str(<<"normalised ">> \o Format(name)) ELSE name,
     description |-> description,
     model |-> model,
     tools |-> lib.tools]

\* the demo descriptor with the library path's model default
DemoDescriptorSharedDefault(config) ==
    Dict([k \in {"name", "description", "model", "demo"} |->
            CASE k = "name" -> Get(config, "agentName", Str(<<"Agent Nexus">>))
              [] k = "description" ->
                    Get(config, "description", Str(<<"Demo Agent (agno not available)">>))
              [] k = "model" -> Get(config, "modelName", Str(<<"gpt-4">>))
              [] OTHER -> Bool(TRUE)])

DemoDescriptor(config) ==
    Dict([k \in {"name", "description", "model", "demo"} |->
            CASE k = "name" -> Get(config, "agentName", Str(<<"Agent Nexus">>))
              [] k = "description" ->
                    Get(config, "description", Str(<<"Demo Agent (agno not available)">>))
              [] k = "model" -> Get(config, "modelName", Str(<<"demo-model">>))
              [] OTHER -> Bool(TRUE)])

AgentDescriptor(inst) ==
    Dict([k \in {"name", "description", "model", "demo"} |->
            CASE k = "name" -> inst.name
              [] k = "description" -> inst.description
              [] k = "model" -> inst.model
              [] OTHER -> Bool(FALSE)])

InitFailure(msg) == Failure(<<"Failed to initialize agent: ">> \o msg)

initialize_agent(config, avail, ag, lib, id) ==
    IF ~avail
    THEN \* no try block here: config.get raises out of the handler
         IF config.t # "dict"
         THEN Raise(NoGet(config), ag, <<>>)
         ELSE Return(Success(DemoDescriptor(config)), ag, <<>>)
    ELSE IF config.t # "dict"
         THEN Return(InitFailure(NoGet(config).msg), ag, <<>>)
         ELSE LET name == Get(config, "agentName", Str(<<"Agent Nexus">>))
                  description ==
                      Get(config, "description",
                          Str(<<"An advanced cognitive agent architecture">>))
                  model == Get(config, "modelName", Str(<<"gpt-4">>))
                  inst == Agent(id, name, description, model, lib)
                  ctor == [fn |-> "Agent", args |-> <<name, description, model>>]
              IN  IF lib.ctor = "raise"
                  THEN \* agno.Agent raised: the assignment never happens
                       Return(InitFailure(<<"agno.Agent raised">>), ag, <<ctor>>)
                  ELSE IF lib.attr = "raise"
                       THEN \* agent is assigned, then reading .name/.description/.model raises
                            Return(InitFailure(<<"agent attribute raised">>), inst, <<ctor>>)
                       ELSE Return(Success(AgentDescriptor(inst)), inst, <<ctor>>)

\* --------------------------------------------------- generate_completion
\* next((m['content'] for m in messages if m['role'] == 'user'), ''): the
\* generator stops at the first user message and looks at nothing after it
\* the generator without its role filter
FirstContent(items, i) ==
    IF i > Len(items) THEN [exc |-> NoExc, val |-> Str(<<>>)]
    ELSE Subscript(items[i], "content")

RECURSIVE FirstUserContent(_, _)
FirstUserContent(items, i) ==
    IF i > Len(items) THEN [exc |-> NoExc, val |-> Str(<<>>)]
    ELSE LET role == Subscript(items[i], "role")
         IN  IF role.exc # NoExc THEN role
             ELSE IF role.val = Str(<<"user">>)
                  THEN Subscript(items[i], "content")
                  ELSE FirstUserContent(items, i + 1)

TruncLen == 50

\* s[:n]
Take(s, n) == SubSeq(s, 1, IF Len(s) < n THEN Len(s) ELSE n)

DemoHead == "Demo response to: '"
DemoTail == "...'\n\nThis is a demo response because the agno library is not available. Please install the agno library for full functionality."
DemoCompletion(text) == Str(<<DemoHead>> \o text \o <<DemoTail>>)

\* the loop that builds agno_messages: one library message constructor per
\* message with a known role, in order; other roles are skipped
RECURSIVE Convert(_, _, _)
Convert(items, i, made) ==
    IF i > Len(items) THEN [exc |-> NoExc, val |-> made]
    ELSE LET role == Subscript(items[i], "role")
             content == Subscript(items[i], "content")
             msg == CASE role.val = Str(<<"system">>) ->
                            <<[fn |-> "SystemMessage", content |-> content.val]>>
                      [] role.val = Str(<<"user">>) ->
                            <<[fn |-> "UserMessage", content |-> content.val]>>
                      [] role.val = Str(<<"assistant">>) ->
                            <<[fn |-> "AssistantMessage", content |-> content.val]>>
                      [] role.val \in {Str(<<"function">>), Str(<<"tool">>)} ->
                            <<[fn |-> "FunctionMessage", content |-> content.val,
                               name |-> Get(items[i], "name", Str(<<"function">>))]>>
                      [] OTHER -> <<>>
         IN  IF role.exc # NoExc THEN [exc |-> role.exc, val |-> made]
             ELSE IF content.exc # NoExc THEN [exc |-> content.exc, val |-> made]
             ELSE Convert(items, i + 1, made \o msg)

\* the except clause of generate_completion without its prefix
GenFailureBare(msg) == Failure(msg)

GenFailure(msg) == Failure(<<"Failed to generate completion: ">> \o msg)

generate_completion(messages, options, avail, ag, lib) ==
    IF ~avail \/ ag = None
    THEN \* no try block on this path
         LET items == Iterate(messages)
             first == FirstUserContent(items.val, 1)
         IN  IF items.exc # NoExc THEN Raise(items.exc, ag, <<>>)
             ELSE IF first.exc # NoExc THEN Raise(first.exc, ag, <<>>)
             ELSE IF first.val.t = "str"
                  THEN Return(Success(DemoCompletion(Take(first.val.v, TruncLen))), ag, <<>>)
             ELSE IF first.val.t = "list"
                  THEN Return(Success(DemoCompletion(
                                  Format(List(Take(first.val.v, TruncLen))))), ag, <<>>)
             ELSE Raise(Exc("TypeError",
                            <<"'", TypeName(first.val), "' object is not subscriptable">>),
                        ag, <<>>)
    ELSE LET items == Iterate(messages)
             conv == Convert(items.val, 1, <<>>)
             gen == [fn |-> "generate", messages |-> conv.val,
                     temperature |-> Get(options, "temperature", Float("0.7")),
                     max_tokens |-> Get(options, "maxTokens", Number(1000)),
                     stop |-> Get(options, "stop", None)]
         IN  IF items.exc # NoExc THEN Return(GenFailure(items.exc.msg), ag, <<>>)
             ELSE IF conv.exc # NoExc THEN Return(GenFailure(conv.exc.msg), ag, conv.val)
             ELSE IF options.t # "dict"
                  THEN Return(GenFailure(NoGet(options).msg), ag, conv.val)
             ELSE IF lib.gen = "raise"
                  THEN Return(GenFailure(<<"agent.generate raised">>), ag, conv.val \o <<gen>>)
             ELSE Return(Success(Str(<<"completion">>)), ag, conv.val \o <<gen>>)

\* ---------------------------------------------------------- execute_tool
DemoToolText(tool_name, params) ==
    Str(<<"Demo tool execution for: ">> \o Format(tool_name) \o <<"\nParameters: ">>
        \o Dumps(params)
        \o <<"\n\nThis is a demo response because the agno library is not available.">>)

ToolFailure(tool_name, msg) ==
    Failure(<<"Failed to execute tool ">> \o Format(tool_name) \o <<": ">> \o msg)

ToolNotFound(tool_name) == Failure(<<"Tool not found: ">> \o Format(tool_name))

\* what agent.execute_tool hands back when it returns
ToolResult(lib) == IF lib.exec = "opaque" THEN Opaque ELSE Str(<<"tool result">>)

\* the membership test left out
RegisteredUnchecked(tool_name, ag) == TRUE

\* tool_name in agent.tools, for a name the registry can hash
Registered(tool_name, ag) == tool_name.t = "str" /\ tool_name.v \in ag.tools

execute_tool(tool_name, params, avail, ag, lib) ==
    IF ~avail \/ ag = None
    THEN Return(Success(DemoToolText(tool_name, params)), ag, <<>>)
    ELSE LET \* tool_name not in agent.tools: agent.tools hashes the name
             hashable == tool_name.t \notin {"list", "dict"}
             member == Registered(tool_name, ag)
             test == [fn |-> "tools.__contains__", name |-> tool_name,
                      result |-> IF hashable THEN Bool(member) ELSE None]
             exec == [fn |-> "execute_tool", name |-> tool_name, kwargs |-> params,
                      raised |-> lib.exec = "raise",
                      result |-> IF lib.exec = "raise" THEN None ELSE ToolResult(lib)]
         IN  IF ~hashable
             THEN Return(ToolFailure(tool_name, <<"unhashable type: '", TypeName(tool_name), "'">>),
                         ag, <<test>>)
             ELSE IF ~member
                  THEN Return(ToolNotFound(tool_name), ag, <<test>>)
             ELSE IF params.t # "dict"
                  THEN \* **params fails before the call is made
                       Return(ToolFailure(tool_name,
                                  <<"argument after ** must be a mapping, not ",
                                    TypeName(params)>>), ag, <<test>>)
             ELSE IF lib.exec = "raise"
                  THEN Return(ToolFailure(tool_name, <<"agent.execute_tool raised">>),
                              ag, <<test, exec>>)
             ELSE Return(Success(exec.result), ag, <<test, exec>>)

\* -------------------------------------------------------- handle_request
\* ping that answers a text
PingPong == Success(Str(<<"pong">>))

PingResponse == Success(Bool(TRUE))

UnknownAction(action) == Failure(<<"Unknown action: ">> \o Format(action))

\* the except clause answering with an empty data next to the error
CatchAllWithData(action, o) ==
    IF o.exc = NoExc THEN o
    ELSE Return([success |-> Bool(FALSE), data |-> None,
                 error |-> Str(<<"Error processing ">> \o Format(action) \o <<": ">>
                               \o o.exc.msg),
                 traceback |-> Str(<<"Traceback (most recent call last): ", o.exc.type>>)],
                o.agent, o.calls)

\* the except clause of handle_request
CatchAll(action, o) ==
    IF o.exc = NoExc THEN o
    ELSE Return([success |-> Bool(FALSE),
                 error |-> Str(<<"Error processing ">> \o Format(action) \o <<": ">>
                               \o o.exc.msg),
                 traceback |-> Str(<<"Traceback (most recent call last): ", o.exc.type>>)],
                o.agent, o.calls)

Route(action, data, avail, ag, lib, id) ==
    CASE action = Str(<<"ping">>) -> Return(PingResponse, ag, <<>>)
      [] action = Str(<<"initialize_agent">>) -> initialize_agent(data, avail, ag, lib, id)
      [] action = Str(<<"generate_completion">>) ->
            IF data.t # "dict" THEN Raise(NoGet(data), ag, <<>>)
            ELSE generate_completion(Get(data, "messages", List(<<>>)),
                                     Get(data, "options", EmptyDict), avail, ag, lib)
      [] action = Str(<<"execute_tool">>) ->
            IF data.t # "dict" THEN Raise(NoGet(data), ag, <<>>)
            ELSE execute_tool(Get(data, "toolName", None),
                              Get(data, "params", EmptyDict), avail, ag, lib)
      [] OTHER -> Return(UnknownAction(action), ag, <<>>)

handle_request(request, avail, ag, lib, id) ==
    IF request.t # "dict"
    THEN \* request.get('action') stands before the try block
         Raise(NoGet(request), ag, <<>>)
    ELSE LET action == Get(request, "action", None)
             data == Get(request, "data", EmptyDict)
         IN  CatchAll(action, Route(action, data, avail, ag, lib, id))

\* ------------------------------------------------------------------ main
\* standard input: bytes the text layer cannot decode, a text that is not
\* JSON, or a JSON text with the value json.loads returns for it
Undecodable == [kind |-> "undecodable"]
Malformed == [kind |-> "malformed"]
Json(value) == [kind |-> "json", value |-> value]
NoInput == [kind |-> "none"]

InvalidJSON == Failure(<<"Invalid JSON: ", "Expecting value: line 1 column 1 (char 0)">>)
Unexpected(msg) == Failure(<<"Unexpected error: ">> \o msg)

ResponseSerializable(r) == \A k \in DOMAIN r : Serializable(r[k])

NotDispatched == [called |-> FALSE, raised |-> FALSE, response |-> NoResponse]

\* print(json.dumps(response)) with nothing to catch the encoder's TypeError
PrintUnguarded(response) == IF ResponseSerializable(response) THEN <<response>> ELSE <<>>

\* print(json.dumps(response)) under main's last except clause: the documents
\* that reach standard output
PrintResponse(response) ==
    IF ResponseSerializable(response)
    THEN <<response>>
    ELSE \* json.dumps raises before print is called
         <<Unexpected(<<"Object of type object is not JSON serializable">>)>>

\* what main does with the outcome o of handle_request: the except Exception
\* clause when it raised, print otherwise
Deliver(o) ==
    [out |-> IF o.exc # NoExc THEN <<Unexpected(o.exc.msg)>> ELSE PrintResponse(o.response),
     dispatched |-> [called |-> TRUE, raised |-> o.exc # NoExc, response |-> o.response],
     agent |-> o.agent,
     calls |-> o.calls]

\* one run of main: the documents printed, what handle_request did, the
\* handle and the library calls afterwards
main(input, avail, ag, lib, id) ==
    IF input.kind = "undecodable"
    THEN \* sys.stdin.read() raises UnicodeDecodeError
         [out |-> <<Unexpected(<<"'utf-8' codec can't decode byte">>)>>,
          dispatched |-> NotDispatched, agent |-> ag, calls |-> <<>>]
    ELSE IF input.kind = "malformed"
    THEN [out |-> <<InvalidJSON>>, dispatched |-> NotDispatched, agent |-> ag,
          calls |-> <<>>]
    ELSE Deliver(handle_request(input.value, avail, ag, lib, id))

\* ---------------------------------------------------------------- inputs
\* message contents: exactly TruncLen characters, one more than that
Chars(n) == [i \in 1..n |-> IF i % 3 = 0 THEN "a" ELSE IF i % 3 = 1 THEN "b" ELSE "c"]

Message(role, content) == Dict([role |-> Str(<<role>>), content |-> content])

ToolMessage == Dict([role |-> Str(<<"tool">>), content |-> Str(<<"4", "2">>),
                     name |-> Str(<<"calc">>)])
\* a message without role, one without content, one that is no object, one
\* whose content is no string
NoRole == Dict([content |-> Str(<<"h", "i">>)])
NoContent == Dict([role |-> Str(<<"user">>)])
NotAMessage == Str(<<"u">>)
NullContent == Message("user", None)

MsgPool == {Message("user", Str(Chars(TruncLen + 1))), Message("user", Str(Chars(TruncLen))),
            Message("system", Str(<<"h", "i">>)), NoRole}

\* every list of up to MaxMsgs pool messages, and the other shapes once each
MsgLists == UNION {[1..n -> MsgPool] : n \in 0..MaxMsgs}
              \cup {<<Message("user", Str(<<>>))>>,
                    <<ToolMessage, Message("user", Str(<<"h", "i">>))>>,
                    <<Message("assistant", Str(<<"o", "k">>)), Message("other", Str(<<"x">>))>>,
                    <<NoContent>>, <<NotAMessage>>, <<NullContent>>,
                    <<Message("system", Str(<<"h", "i">>)), NoContent>>}

Absent == [t |-> "absent"]
\* a dict of the members that are present
Obj(f) == Dict([k \in {k \in DOMAIN f : f[k] # Absent} |-> f[k]])

MessagesValues == {List(l) : l \in MsgLists} \cup {Absent, None, Str(<<"u", "s">>)}
OptionsValues == {None, Dict([temperature |-> Float("0.2")])}
\* every messages value without options, and a few with each options value
GenerateData == {Obj([messages |-> m, options |-> Absent]) : m \in MessagesValues}
                  \cup {Obj([messages |-> m, options |-> o]) :
                           m \in {Absent, List(<<Message("user", Str(Chars(TruncLen)))>>),
                                  List(<<NoRole>>)},
                           o \in OptionsValues}
                  \cup {Absent, None, List(<<>>)}

ConfigValues == {EmptyDict,
                 Dict([agentName |-> Str(<<"Nexus Two">>), description |-> Number(7),
                       modelName |-> Str(<<"gpt-4o">>)])}
InitializeData == ConfigValues \cup {Absent, None, List(<<>>)}

ToolNames == {<<"search">>}
ToolNameValues == {Absent, Str(<<"search">>), Str(<<"calc">>), List(<<>>)}
ParamsValues == {Absent, None, List(<<Number(1)>>), Dict([q |-> Str(<<"x">>)])}
ExecuteData == {Obj([toolName |-> n, params |-> q]) :
                    n \in ToolNameValues, q \in ParamsValues}
                  \cup {Absent, None}

PingData == {Absent, None, EmptyDict, List(<<Number(1)>>)}

UnknownActions == {Absent, None, Number(1), Str(<<"bogus">>), Str(<<"Ping">>), List(<<>>)}

Request(action, data) == Obj([action |-> action, data |-> data])

NonObjects == {None, Bool(TRUE), Number(1), Str(<<"ping">>), List(<<>>),
               List(<<Request(Str(<<"ping">>), Absent)>>)}

\* what the library does in one run.  ctor: agno.Agent; attr: reading the new
\* instance's attributes; norm: the instance renders its name itself; tools: the
\* registry a new instance carries; gen: agent.generate; exec: agent.execute_tool
Quiet == [ctor |-> "ok", attr |-> "ok", norm |-> FALSE, tools |-> {}, gen |-> "ok",
          exec |-> "ok"]
LibInitialize == {[Quiet EXCEPT !.tools = ToolNames],
                  [Quiet EXCEPT !.norm = TRUE],
                  [Quiet EXCEPT !.ctor = "raise"],
                  [Quiet EXCEPT !.tools = ToolNames, !.attr = "raise"]}
LibGenerate == {Quiet, [Quiet EXCEPT !.gen = "raise"]}
LibExecute == {Quiet, [Quiet EXCEPT !.exec = "raise"], [Quiet EXCEPT !.exec = "opaque"]}

\* ----------------------------------------------------------- the process
Init ==
    /\ AGNO_AVAILABLE \in BOOLEAN
    /\ agent = None
    /\ stdin = NoInput
    /\ dispatched = NotDispatched
    /\ calls = <<>>
    /\ stdout = <<>>
    /\ written = 0
    /\ runs = 0
    /\ prev_agent = None
    /\ last_init = None
    /\ next_id = 1

\* agno.Agent returned an instance in this run
Constructed(m) == \E i \in 1..Len(m.calls) : m.calls[i].fn = "Agent" /\ m.agent # None
                                               /\ m.agent.id = next_id

\* the process after a run of main that came out as m
Finish(input, m) ==
    /\ agent' = m.agent
    /\ stdin' = input
    /\ dispatched' = m.dispatched
    /\ calls' = m.calls
    /\ stdout' = m.out
    /\ written' = written + Len(m.out)
    /\ next_id' = IF Constructed(m) THEN next_id + 1 ELSE next_id
    /\ last_init' = IF Constructed(m) /\ m.dispatched.response.success = Bool(TRUE)
                    THEN m.agent ELSE last_init
    /\ runs' = runs + 1
    /\ prev_agent' = agent
    /\ UNCHANGED AGNO_AVAILABLE

\* one run of main() on the given standard input
Run(input, lib) == Finish(input, main(input, AGNO_AVAILABLE, agent, lib, next_id))

Ping ==
    /\ runs < MaxRequests
    /\ \E d \in PingData : Run(Json(Request(Str(<<"ping">>), d)), Quiet)

InitializeAgent ==
    /\ runs < MaxRequests
    /\ \E d \in InitializeData, lib \in LibInitialize :
          Run(Json(Request(Str(<<"initialize_agent">>), d)), lib)

GenerateCompletion ==
    /\ runs < MaxRequests
    /\ \E d \in GenerateData, lib \in LibGenerate :
          Run(Json(Request(Str(<<"generate_completion">>), d)), lib)

ExecuteTool ==
    /\ runs < MaxRequests
    /\ \E d \in ExecuteData, lib \in LibExecute :
          Run(Json(Request(Str(<<"execute_tool">>), d)), lib)

UnrecognisedAction ==
    /\ runs < MaxRequests
    /\ \E a \in UnknownActions, d \in {Absent, None} : Run(Json(Request(a, d)), Quiet)

NonObjectRequest ==
    /\ runs < MaxRequests
    /\ \E v \in NonObjects : Run(Json(v), Quiet)

MalformedInput ==
    /\ runs < MaxRequests
    /\ Run(Malformed, Quiet)

UndecodableInput ==
    /\ runs < MaxRequests
    /\ Run(Undecodable, Quiet)

Next ==
    \/ Ping
    \/ InitializeAgent
    \/ GenerateCompletion
    \/ ExecuteTool
    \/ UnrecognisedAction
    \/ NonObjectRequest
    \/ MalformedInput
    \/ UndecodableInput

Spec == Init /\ [][Next]_vars

\* ============================================================ properties
\* what the latest run was given and what it answered
Decoded == stdin.kind = "json"
IsRequestObject == Decoded /\ stdin.value.t = "dict"
ReqAction == IF "action" \in DOMAIN stdin.value.v THEN stdin.value.v["action"] ELSE None
ReqData == IF "data" \in DOMAIN stdin.value.v THEN stdin.value.v["data"] ELSE EmptyDict
IsAction(name) == IsRequestObject /\ ReqAction = Str(<<name>>)
Response == dispatched.response
Answered == dispatched.called /\ ~dispatched.raised
Failed == Answered /\ Response.success = Bool(FALSE)

StartsWith(text, prefix) ==
    /\ Len(text) >= Len(prefix)
    /\ \A i \in 1..Len(prefix) : text[i] = prefix[i]

\* a response of the documented shape
WellFormed(r) ==
    /\ "success" \in DOMAIN r
    /\ r.success \in {Bool(TRUE), Bool(FALSE)}
    /\ r.success = Bool(TRUE) =>
          "data" \in DOMAIN r /\ "error" \notin DOMAIN r /\ "traceback" \notin DOMAIN r
    /\ r.success = Bool(FALSE) =>
          "error" \in DOMAIN r /\ r.error.t = "str" /\ "data" \notin DOMAIN r

\* C1: handle_request returns a response for every decoded JSON value main can
\* pass to it and never raises; every failure is a response with success =
\* false and an error string.
C1_DispatcherTotal ==
    dispatched.called =>
        /\ ~dispatched.raised
        /\ "success" \in DOMAIN Response
        /\ Response.success = Bool(FALSE) =>
              "error" \in DOMAIN Response /\ Response.error.t = "str"

C3_ResponseShape ==
    /\ Answered => WellFormed(Response)
    /\ \A i \in 1..Len(stdout) : WellFormed(stdout[i])

\* the dispatcher's catch-all answered, with its traceback
C3_Witness ==
    /\ Answered
    /\ "traceback" \in DOMAIN Response
    /\ stdout = <<Response>>

\* C4: with the library available, a failed initialize_agent answers "Failed
\* to initialize agent: <message>" and leaves the agent handle as it was.
C4_FailedInitKeepsHandle ==
    (AGNO_AVAILABLE /\ IsAction("initialize_agent") /\ Failed) =>
        /\ StartsWith(Response.error.v, <<"Failed to initialize agent: ">>)
        /\ agent = prev_agent

\* C5: with the library available the handle is empty until the first
\* successful initialize_agent and afterwards is the instance the most recent
\* successful initialize_agent constructed; a successful initialize_agent
\* answers the descriptor of that instance with demo = false; every other
\* action leaves the handle alone.
C5_HandleIsLatestInit ==
    AGNO_AVAILABLE =>
        /\ agent = last_init
        /\ (IsAction("initialize_agent") /\ Answered /\ Response.success = Bool(TRUE)) =>
              /\ agent # prev_agent
              /\ Response.data = Dict([name |-> agent.name,
                                       description |-> agent.description,
                                       model |-> agent.model, demo |-> Bool(FALSE)])
        /\ (runs > 0 /\ ~IsAction("initialize_agent")) => agent = prev_agent

\* the arguments handle_request hands to the handlers
DataIsObject == ReqData.t = "dict"
ReqMessages == IF "messages" \in DOMAIN ReqData.v THEN ReqData.v["messages"] ELSE List(<<>>)
ReqToolName == IF "toolName" \in DOMAIN ReqData.v THEN ReqData.v["toolName"] ELSE None
ReqParams == IF "params" \in DOMAIN ReqData.v THEN ReqData.v["params"] ELSE EmptyDict

\* a Message of the data model: an object with a string role and a string content
IsMessage(m) ==
    /\ m.t = "dict"
    /\ {"role", "content"} \subseteq DOMAIN m.v
    /\ m.v["role"].t = "str"
    /\ m.v["content"].t = "str"
IsMessageList(x) == x.t = "list" /\ \A i \in 1..Len(x.v) : IsMessage(x.v[i])

UserIndexes(msgs) == {i \in 1..Len(msgs) : msgs[i].v["role"] = Str(<<"user">>)}
\* the text the demo completion must embed for a list of Messages
ExpectedEmbedded(msgs) ==
    IF UserIndexes(msgs) = {} THEN <<>>
    ELSE LET i == CHOOSE i \in UserIndexes(msgs) : \A j \in UserIndexes(msgs) : i <= j
             c == msgs[i].v["content"].v
         IN  [j \in 1..(IF Len(c) < 50 THEN Len(c) ELSE 50) |-> c[j]]

DemoPath == ~AGNO_AVAILABLE \/ prev_agent = None

\* C6: when the library is unavailable or no agent is initialized,
\* generate_completion on a list of Messages calls nothing of the library and
\* answers success with the demo template around the first 50 characters of
\* the first user message's content (nothing when there is no user message);
\* the answer is a function of the messages alone.
C6_DemoCompletion ==
    (IsAction("generate_completion") /\ DataIsObject /\ IsMessageList(ReqMessages)
        /\ DemoPath) =>
        /\ calls = <<>>
        /\ Answered
        /\ DOMAIN Response = {"success", "data"}
        /\ Response.success = Bool(TRUE)
        /\ Response.data.t = "str"
        /\ Response.data.v = <<DemoHead>> \o ExpectedEmbedded(ReqMessages.v) \o <<DemoTail>>
        /\ agent = prev_agent

\* the library is there but no agent is: two user messages, the first of them
\* one character longer than the cut, and the answer holds 50 characters of it
C6_Witness ==
    /\ IsAction("generate_completion") /\ DataIsObject /\ IsMessageList(ReqMessages)
    /\ AGNO_AVAILABLE /\ prev_agent = None
    /\ UserIndexes(ReqMessages.v) = {1, 2}
    /\ Len(ReqMessages.v[1].v["content"].v) = 51
    /\ Len(ReqMessages.v[2].v["content"].v) = 50
    /\ Answered /\ Response.success = Bool(TRUE)
    /\ Len(Response.data.v) = 52

ExecCalls == {i \in 1..Len(calls) : calls[i].fn = "execute_tool"}
MembershipPassedBefore(i) ==
    \E j \in 1..(i - 1) : /\ calls[j].fn = "tools.__contains__"
                          /\ calls[j].name = calls[i].name
                          /\ calls[j].result = Bool(TRUE)

\* C7: with the library and an agent, execute_tool invokes agent.execute_tool
\* only after toolName passed the membership test in agent.tools; an
\* unregistered name is answered "Tool not found: <toolName>" without an
\* invocation; a registered one is invoked exactly once with params as its
\* named arguments and what it returns is the data of a success response.
C7_ToolAfterMembership ==
    (IsAction("execute_tool") /\ DataIsObject /\ AGNO_AVAILABLE /\ prev_agent # None) =>
        /\ \A i \in ExecCalls : MembershipPassedBefore(i) /\ calls[i].name = ReqToolName
        /\ Cardinality(ExecCalls) <= 1
        /\ agent = prev_agent
        /\ (ReqToolName.t \notin {"list", "dict"}
              /\ ~(ReqToolName.t = "str" /\ ReqToolName.v \in prev_agent.tools)) =>
              /\ ExecCalls = {}
              /\ Answered
              /\ Response = [success |-> Bool(FALSE),
                             error |-> Str(<<"Tool not found: ">> \o Format(ReqToolName))]
        /\ (ReqToolName.t = "str" /\ ReqToolName.v \in prev_agent.tools
              /\ ReqParams.t = "dict") =>
              /\ Cardinality(ExecCalls) = 1
              /\ \A i \in ExecCalls :
                    /\ calls[i].kwargs = ReqParams
                    /\ ~calls[i].raised =>
                          Answered /\ Response = [success |-> Bool(TRUE),
                                                  data |-> calls[i].result]
                    /\ calls[i].raised =>
                          /\ Failed
                          /\ StartsWith(Response.error.v,
                                        <<"Failed to execute tool ">> \o Format(ReqToolName)
                                            \o <<": ">>)

\* a registered tool was invoked and its result answered
C7_Witness ==
    /\ IsAction("execute_tool") /\ DataIsObject /\ AGNO_AVAILABLE /\ prev_agent # None
    /\ Len(calls) = 2
    /\ calls[2].fn = "execute_tool"
    /\ ~calls[2].raised
    /\ Response.data = calls[2].result
    /\ stdout = <<Response>>

\* an unregistered tool was refused
C7_WitnessNotFound ==
    /\ IsAction("execute_tool") /\ DataIsObject /\ AGNO_AVAILABLE /\ prev_agent # None
    /\ prev_agent.tools # {}
    /\ ReqToolName = Str(<<"calc">>)
    /\ Failed
    /\ ExecCalls = {}

\* C8: without the library initialize_agent never changes the handle, which
\* so stays empty and keeps generate_completion / execute_tool on the demo
\* path, and answers success with a demo = true descriptor of the supplied
\* agentName, description and modelName, defaulted to "Agent Nexus", the demo
\* description and "demo-model".
C8_DemoInitialize ==
    ~AGNO_AVAILABLE =>
        /\ agent = None
        /\ prev_agent = None
        /\ calls = <<>>
        /\ (IsAction("initialize_agent") /\ DataIsObject) =>
              /\ Answered
              /\ DOMAIN Response = {"success", "data"}
              /\ Response.success = Bool(TRUE)
              /\ Response.data.t = "dict"
              /\ DOMAIN Response.data.v = {"name", "description", "model", "demo"}
              /\ Response.data.v["name"] =
                    (IF "agentName" \in DOMAIN ReqData.v THEN ReqData.v["agentName"]
                     ELSE Str(<<"Agent Nexus">>))
              /\ Response.data.v["description"] =
                    (IF "description" \in DOMAIN ReqData.v THEN ReqData.v["description"]
                     ELSE Str(<<"Demo Agent (agno not available)">>))
              /\ Response.data.v["model"] =
                    (IF "modelName" \in DOMAIN ReqData.v THEN ReqData.v["modelName"]
                     ELSE Str(<<"demo-model">>))
              /\ Response.data.v["demo"] = Bool(TRUE)
        /\ (IsAction("execute_tool") /\ DataIsObject) =>
              /\ Answered /\ Response.success = Bool(TRUE)
              /\ StartsWith(Response.data.v, <<"Demo tool execution for: ">>)
        /\ (IsAction("generate_completion") /\ Answered /\ Response.success = Bool(TRUE)) =>
              StartsWith(Response.data.v, <<DemoHead>>)

\* the configuration {} answered without the library, after an earlier request
C8_Witness ==
    /\ ~AGNO_AVAILABLE
    /\ runs = 2
    /\ IsAction("initialize_agent")
    /\ ReqData = EmptyDict
    /\ Response.data.v["model"] = Str(<<"demo-model">>)
    /\ agent = None

\* C9: a ping request is answered exactly {success: true, data: true},
\* whatever its data, the library, the handle and the requests before; it
\* calls nothing of the library and leaves the handle unchanged.
C9_Ping ==
    IsAction("ping") =>
        /\ Answered
        /\ Response = [success |-> Bool(TRUE), data |-> Bool(TRUE)]
        /\ stdout = <<[success |-> Bool(TRUE), data |-> Bool(TRUE)]>>
        /\ calls = <<>>
        /\ agent = prev_agent

\* a ping with data that is no object, to a process that holds an agent
C9_Witness ==
    /\ IsAction("ping")
    /\ "data" \in DOMAIN stdin.value.v
    /\ ReqData.t # "dict"
    /\ AGNO_AVAILABLE
    /\ agent # None
    /\ runs = 2

HandlerActions == {"initialize_agent", "generate_completion", "execute_tool"}
IsHandlerAction == \E a \in HandlerActions : IsAction(a)

\* C10: every failure of initialize_agent, generate_completion or execute_tool
\* carries the handler's own prefix ("Failed to initialize agent: ", "Failed to
\* generate completion: ", "Failed to execute tool <toolName>: ", or is "Tool
\* not found: <toolName>"), in demo mode and with the library, malformed data
\* included.
C10_HandlerPrefix ==
    (IsHandlerAction /\ Failed) =>
        /\ IsAction("initialize_agent") =>
              StartsWith(Response.error.v, <<"Failed to initialize agent: ">>)
        /\ IsAction("generate_completion") =>
              StartsWith(Response.error.v, <<"Failed to generate completion: ">>)
        /\ IsAction("execute_tool") =>
              \/ StartsWith(Response.error.v,
                            <<"Failed to execute tool ">> \o Format(ReqToolName) \o <<": ">>)
              \/ Response.error.v = <<"Tool not found: ">> \o Format(ReqToolName)

\* the handler's try block was entered: the library is there, and for
\* generate_completion / execute_tool the data is an object and an agent is set
InHandlerTry ==
    /\ AGNO_AVAILABLE
    /\ IsAction("initialize_agent") \/ (DataIsObject /\ prev_agent # None)

\* C10 as amended: a failure raised inside a handler's try block (its library
\* path) carries the handler's prefix and no traceback; any other failure of
\* the three actions is caught by handle_request and reads "Error processing
\* <action>: <message>", with a traceback.
C10_PrefixByCatcher ==
    (IsHandlerAction /\ dispatched.called) =>
        /\ Answered
        /\ Failed =>
              IF InHandlerTry
              THEN /\ DOMAIN Response = {"success", "error"}
                   /\ IsAction("initialize_agent") =>
                         StartsWith(Response.error.v, <<"Failed to initialize agent: ">>)
                   /\ IsAction("generate_completion") =>
                         StartsWith(Response.error.v, <<"Failed to generate completion: ">>)
                   /\ IsAction("execute_tool") =>
                         \/ StartsWith(Response.error.v,
                                       <<"Failed to execute tool ">> \o Format(ReqToolName)
                                           \o <<": ">>)
                         \/ Response.error.v = <<"Tool not found: ">> \o Format(ReqToolName)
              ELSE /\ DOMAIN Response = {"success", "error", "traceback"}
                   /\ StartsWith(Response.error.v,
                                 <<"Error processing ">> \o ReqAction.v \o <<": ">>)

\* a message without role failed the demo completion
C10_Witness ==
    /\ IsAction("generate_completion") /\ DataIsObject
    /\ ~AGNO_AVAILABLE
    /\ ReqMessages = List(<<NoRole>>)
    /\ Failed
    /\ Response.error.v = <<"Error processing ", "generate_completion", ": ", "'", "role", "'">>

\* the same message failed the library path, inside the handler
C10_WitnessInHandler ==
    /\ IsAction("generate_completion") /\ DataIsObject
    /\ AGNO_AVAILABLE /\ prev_agent # None
    /\ ReqMessages = List(<<NoRole>>)
    /\ Failed
    /\ Response.error.v = <<"Failed to generate completion: ", "'", "role", "'">>

====
